---- MODULE Spec2Model ----
(***************************************************************************)
(* The product catalogue service of mpaliichuk/WebShopBackend.             *)
(*                                                                         *)
(* The repository holds three implementations of the same HTTP interface:  *)
(*   "part_000"  src/unnamed/part_000  Express + Firestore, paginated list *)
(*   "server"    src/server.js         Express + Firestore, earlier form   *)
(*   "part_001"  src/unnamed/part_001  node:http + an in-memory array      *)
(* The variable `variant` says which one is running.  A handler that       *)
(* awaits the store more than once is one action per store round trip, so  *)
(* that requests interleave where the event loop lets them.                *)
(*                                                                         *)
(* JSON values are tagged records [t, v]: t = "undef" (the key is absent), *)
(* "num" or "str".  A numeric string such as "2" is [t |-> "str", v |-> 2];*)
(* a name is a sequence of one-character strings.                          *)
(***************************************************************************)
EXTENDS Integers, Sequences, FiniteSets, TLC

\* Largest product id the requests use (ids and document keys are 1..MaxId).
MaxId == 2
\* The in-memory array is unbounded: accepted creations are capped here.
MaxCreated == 2

Variants == {"part_000", "server", "part_001"}
Slots == {1, 2}
Keys == 1..MaxId

Undef == [t |-> "undef", v |-> 0]
Num(k) == [t |-> "num", v |-> k]
Str(k) == [t |-> "str", v |-> k]

\* Request inputs.
BodyIds == {Undef} \cup {Num(k) : k \in Keys} \cup {Str(k) : k \in Keys}
NameStrings == {<<>>, <<" ">>, <<"A">>}
NoName == [t |-> "undef", v |-> <<>>]
BodyNames == {NoName} \cup {[t |-> "str", v |-> s] : s \in NameStrings}
Prices == {10, 20}
Bodies == [id : BodyIds, name : BodyNames, price : Prices]
PageArgs == {Undef, Num(1), Num(2)}
Queries == [pageIndex : PageArgs, pageSize : PageArgs,
            sortField : {"name", "price"}, sort : {"asc", "desc"}]

\* Queries whose page arguments may also be zero or negative.
WidePageArgs == PageArgs \cup {Num(-1), Num(0)}
WideQueries == [pageIndex : WidePageArgs, pageSize : WidePageArgs,
                sortField : {"name", "price"}, sort : {"asc", "desc"}]

\* The inputs of the runs with two requests in flight: fewer, to keep the
\* interleavings countable.
ConcBodies == [id : {Str(k) : k \in Keys},
               name : {NoName, [t |-> "str", v |-> <<>>], [t |-> "str", v |-> <<"A">>]},
               price : {10}]
ConcQueries == [pageIndex : {Num(1), Num(2)}, pageSize : {Num(1), Num(2)},
                sortField : {"price"}, sort : {"asc"}]

----------------------------------------------------------------------------
\* JavaScript conversions and tests

\* !id : undefined and the number 0 are falsy; a string of digits is not.
FalsyId(x) == x.t = "undef" \/ (x.t = "num" /\ x.v = 0)

\* !name : undefined and the empty string are falsy.
FalsyName(x) == x.t = "undef" \/ x.v = <<>>

\* id.toString(): the document key of a number or of a numeric string.
IdToString(id) == id.v

\* parseInt of a path segment or query value holding the digits of k.
ParseInt(k) == Num(k)

\* parseInt(q) || dflt : an absent value is NaN, and NaN and 0 are falsy.
ParseIntOr(q, dflt) == IF q.t = "undef" \/ q.v = 0 THEN dflt ELSE q.v

\* if (!id || !name) return 400
PostRejects(body) == FalsyId(body.id) \/ FalsyName(body.name)

\* s.trim(): leading and trailing blanks removed.
RECURSIVE TrimLeft(_)
TrimLeft(s) == IF s # <<>> /\ Head(s) = " " THEN TrimLeft(Tail(s)) ELSE s
RECURSIVE TrimRight(_)
TrimRight(s) ==
    IF s # <<>> /\ s[Len(s)] = " " THEN TrimRight(SubSeq(s, 1, Len(s) - 1)) ELSE s
Trim(s) == TrimRight(TrimLeft(s))

Min(a, b) == IF a < b THEN a ELSE b

----------------------------------------------------------------------------
\* The Firestore collection "products" (part_000, server.js)

\* { id: doc.id, ...doc.data() }: the spread comes last, so the id of the data
\* replaces the key whenever the data has one.
DocToProduct(key, data) ==
    [id |-> IF data.id.t = "undef" THEN Str(key) ELSE data.id,
     name |-> data.name, price |-> data.price]

\* Code point of a character of a name.
CharRank(c) == IF c = " " THEN 32 ELSE 65

RECURSIVE StrLess(_, _)
StrLess(a, b) ==
    IF b = <<>> THEN FALSE
    ELSE IF a = <<>> THEN TRUE
    ELSE IF CharRank(Head(a)) # CharRank(Head(b))
         THEN CharRank(Head(a)) < CharRank(Head(b))
         ELSE StrLess(Tail(a), Tail(b))

\* Firestore's order of two documents under orderBy(field, "asc"): by the field,
\* then by document key.
DocBefore(d, field, k1, k2) ==
    IF field = "price"
    THEN \/ d[k1].price < d[k2].price
         \/ d[k1].price = d[k2].price /\ k1 < k2
    ELSE IF field = "__name__" THEN k1 < k2
    ELSE \/ StrLess(d[k1].name.v, d[k2].name.v)
         \/ d[k1].name.v = d[k2].name.v /\ k1 < k2

RECURSIVE SortKeys(_, _, _)
SortKeys(d, field, ks) ==
    IF ks = {} THEN <<>>
    ELSE LET first == CHOOSE k \in ks :
                          \A o \in ks \ {k} : DocBefore(d, field, k, o)
         IN  <<first>> \o SortKeys(d, field, ks \ {first})

Reverse(seq) == [i \in 1..Len(seq) |-> seq[Len(seq) + 1 - i]]

\* collection.orderBy(field, dir).get(): the documents as products, in order.
OrderBy(d, field, dir) ==
    LET asc == SortKeys(d, field, DOMAIN d)
        ks == IF dir = "desc" THEN Reverse(asc) ELSE asc
    IN  [i \in 1..Len(ks) |-> DocToProduct(ks[i], d[ks[i]])]

\* A faulty Page, for testing the properties: the offset is not applied.
PageFromStart(seq, offset, limit) == SubSeq(seq, 1, Min(Len(seq), limit))

\* .offset(offset).limit(limit) of an ordered result.
Page(seq, offset, limit) ==
    SubSeq(seq, offset + 1, Min(Len(seq), offset + limit))

\* collection.get(): the documents in key order.
GetAll(d) == OrderBy(d, "__name__", "asc")

----------------------------------------------------------------------------
\* State

VARIABLES
    variant,    \* which implementation is running
    alive,      \* the node process has not died of an uncaught exception
    docs,       \* the Firestore collection: document key -> data
    products,   \* part_001's array `products`
    created,    \* products part_001 has accepted (caps the array's growth)
    inflight,   \* per request slot: where the handler stands between awaits
    resp,       \* the response written by the latest step, if it wrote one
    countBefore \* history: how many products there were before the latest step

vars == <<variant, alive, docs, products, created, inflight, resp, countBefore>>

DbVariants == {"part_000", "server"}

DefaultPageIndex == 1
DefaultPageSize == 10

\* The request a response answers: the path id, the JSON body or the query.
NoBody == [id |-> Undef, name |-> NoName, price |-> 0]
NoQuery == [pageIndex |-> Undef, pageSize |-> Undef, sortField |-> "name",
            sort |-> "asc"]
NoReq == [key |-> 0, body |-> NoBody, q |-> NoQuery]
KeyReq(key) == [NoReq EXCEPT !.key = key]
BodyReq(body) == [NoReq EXCEPT !.body = body]
QueryReq(q) == [NoReq EXCEPT !.q = q]

\* `seen` is history, not a local of the code: the collection as the list
\* handler's count read it.
Idle == [pc |-> "idle", key |-> 0, q |-> NoQuery, pageIndex |-> 0, pageSize |-> 0,
         sortField |-> "name", sort |-> "asc", totalCount |-> 0, keys |-> {},
         seen |-> <<>>]

\* A response: status, the JSON body's shape (kind) and content.  kind is
\* "product" (items = <<p>>), "pair" (items = <<p, q>>), "list" (the paginated
\* object), "all" (a bare array), "count", "error" ({error: text}), "message"
\* ({message: text}), "html" (Express's own error page) or "none" (nothing sent).
\* offset and limit are history, not part of the body: the arguments the list
\* handler gave the store's page query.
Resp(op, req, status, kind, items, n, text) ==
    [op |-> op, req |-> req, status |-> status, kind |-> kind, items |-> items,
     n |-> n, text |-> text, pageIndex |-> 0, pageSize |-> 0,
     offset |-> 0, limit |-> 0]

NoResponse(op, req) == Resp(op, req, 0, "none", <<>>, 0, "")
ErrorResp(op, req, status, text) == Resp(op, req, status, "error", <<>>, 0, text)
MessageResp(op, req, status, text) == Resp(op, req, status, "message", <<>>, 0, text)
ProductResp(op, req, status, p) == Resp(op, req, status, "product", <<p>>, 0, "")

InitResp == Resp("none", NoReq, 0, "none", <<>>, 0, "")

\* part_001's initial array (prices in hundredths).
InitProducts ==
    << [id |-> Num(1), name |-> [t |-> "str", v |-> <<"A", "p", "p", "l", "e">>],
        price |-> 12312],
       [id |-> Num(2), name |-> [t |-> "str", v |-> <<"O", "r", "a", "n", "g", "e">>],
        price |-> 30050],
       [id |-> Num(3), name |-> [t |-> "str", v |-> <<"L", "i", "m", "e">>],
        price |-> 20010],
       [id |-> Num(11),
        name |-> [t |-> "str",
                  v |-> <<"S", "t", "r", "a", "w", "b", "e", "r", "r", "y">>],
        price |-> 10013] >>

\* The products held, whichever the implementation.
AllProducts == IF variant \in DbVariants THEN GetAll(docs) ELSE products

\* The Firestore collection outlives the process: it starts with whatever earlier
\* POSTs (of bodies B) left in it.  The array starts as written in the source.
InitWith(B) ==
    /\ variant \in Variants
    /\ alive = TRUE
    /\ IF variant \in DbVariants
       THEN /\ \E ks \in SUBSET Keys :
                 docs \in [ks -> {b \in B : ~PostRejects(b)}]
            /\ \A k \in DOMAIN docs : IdToString(docs[k].id) = k
            /\ products = <<>>
       ELSE /\ docs = <<>>
            /\ products = InitProducts
    /\ created = 0
    /\ inflight = [s \in Slots |-> Idle]
    /\ resp = InitResp
    /\ countBefore = Len(AllProducts)

----------------------------------------------------------------------------
\* Express + Firestore (part_000, server.js)

\* An async Express handler without try/catch whose store call rejects: the
\* rejection is unhandled.  On node 18+ (the README's prerequisite) with
\* Express 4 the process dies; with Express 5 the default error handler
\* answers 500 with an HTML page.
UnhandledRejection(s, op, req) ==
    \E outcome \in {"crash", "html500"} :
        /\ alive' = (outcome # "crash")
        /\ inflight' = IF outcome = "crash" THEN [t \in Slots |-> Idle]
                       ELSE [inflight EXCEPT ![s] = Idle]
        /\ resp' = IF outcome = "html500"
                   THEN Resp(op, req, 500, "html", <<>>, 0, "")
                   ELSE NoResponse(op, req)

DbReady(s) == alive /\ variant \in DbVariants /\ inflight[s].pc = "idle"

\* The response to a query for one product (orderBy price, limit 1).
FirstOrNotFound(op, snapshot) ==
    IF snapshot = <<>>
    THEN ErrorResp(op, NoReq, 404, "No products found")
    ELSE ProductResp(op, NoReq, 200, snapshot[1])

Expensivest(s) ==
    /\ DbReady(s)
    /\ \/ /\ resp' = FirstOrNotFound("expensivest",
                                     Page(OrderBy(docs, "price", "desc"), 0, 1))
          /\ UNCHANGED <<alive, inflight>>
       \/ UnhandledRejection(s, "expensivest", NoReq)
    /\ UNCHANGED <<variant, docs, products, created>>
    /\ countBefore' = Len(AllProducts)

Cheapest(s) ==
    /\ DbReady(s)
    /\ \/ /\ resp' = FirstOrNotFound("cheapest",
                                     Page(OrderBy(docs, "price", "asc"), 0, 1))
          /\ UNCHANGED <<alive, inflight>>
       \/ UnhandledRejection(s, "cheapest", NoReq)
    /\ UNCHANGED <<variant, docs, products, created>>
    /\ countBefore' = Len(AllProducts)

Count(s) ==
    /\ DbReady(s)
    /\ \/ /\ resp' = Resp("count", NoReq, 200, "count", <<>>, Len(GetAll(docs)), "")
          /\ UNCHANGED <<alive, inflight>>
       \/ UnhandledRejection(s, "count", NoReq)
    /\ UNCHANGED <<variant, docs, products, created>>
    /\ countBefore' = Len(AllProducts)

\* The median handlers' pick from the products in ascending price order
\* (indices are JavaScript's, from 0: sorted[i + 1] is products[i]).
MedianBody000(sorted) ==
    LET mid == Len(sorted) \div 2
    IN  IF Len(sorted) % 2 = 1
        THEN ProductResp("median", NoReq, 200, sorted[mid + 1])
        ELSE Resp("median", NoReq, 200, "pair", <<sorted[mid], sorted[mid + 1]>>, 0, "")

MedianBodyServer(sorted) ==
    LET mid == Len(sorted) \div 2
    IN  ProductResp("median", NoReq, 200,
                    IF Len(sorted) % 2 = 1 THEN sorted[mid + 1] ELSE sorted[mid])

Median(s) ==
    /\ DbReady(s)
    /\ \/ /\ LET sorted == OrderBy(docs, "price", "asc")
             IN  resp' = IF Len(sorted) = 0
                         THEN ErrorResp("median", NoReq, 404, "No products found")
                         ELSE IF variant = "part_000"
                              THEN MedianBody000(sorted)
                              ELSE MedianBodyServer(sorted)
          /\ UNCHANGED <<alive, inflight>>
       \/ /\ variant = "part_000"      \* catch (error)
          /\ resp' = ErrorResp("median", NoReq, 500, "Could not retrieve median product")
          /\ UNCHANGED <<alive, inflight>>
       \/ /\ variant = "server"
          /\ UnhandledRejection(s, "median", NoReq)
    /\ UNCHANGED <<variant, docs, products, created>>
    /\ countBefore' = Len(AllProducts)

\* doc(key).set(data): create or replace the document.
DocSet(d, key, data) ==
    [k \in DOMAIN d \cup {key} |-> IF k = key THEN data ELSE d[k]]

\* A faulty DocsDelete, for testing the properties: of the keys given, only the
\* first document is deleted.
DocsDeleteFirstOnly(d, ks) ==
    LET present == ks \cap DOMAIN d
    IN  IF present = {} THEN d
        ELSE LET first == CHOOSE k \in present : \A o \in present : k <= o
             IN  [k \in DOMAIN d \ {first} |-> d[k]]

\* doc(key).delete(); a batch of deletes is the same over a set of keys.
DocsDelete(d, ks) == [k \in DOMAIN d \ ks |-> d[k]]

Post(s, body) ==
    /\ DbReady(s)
    /\ IF PostRejects(body)
       THEN /\ resp' = ErrorResp("post", BodyReq(body), 400,
                                 IF variant = "part_000"
                                 THEN "id and name are required"
                                 ELSE "id and name required")
            /\ UNCHANGED <<alive, inflight, docs>>
       ELSE \/ /\ docs' = DocSet(docs, IdToString(body.id), body)
               /\ resp' = ProductResp("post", BodyReq(body), 201, body)
               /\ UNCHANGED <<alive, inflight>>
            \/ /\ UnhandledRejection(s, "post", BodyReq(body))
               /\ UNCHANGED docs
    /\ UNCHANGED <<variant, products, created>>
    /\ countBefore' = Len(AllProducts)

GetById(s, key) ==
    /\ DbReady(s)
    /\ \/ /\ resp' = IF key \in DOMAIN docs
                     THEN ProductResp("get", KeyReq(key), 200, DocToProduct(key, docs[key]))
                     ELSE ErrorResp("get", KeyReq(key), 404, "Product not found")
          /\ UNCHANGED <<alive, inflight>>
       \/ UnhandledRejection(s, "get", KeyReq(key))
    /\ UNCHANGED <<variant, docs, products, created>>
    /\ countBefore' = Len(AllProducts)

\* DELETE /products/:id up to its first await: the existence check.
DeleteCheck(s, key) ==
    /\ DbReady(s)
    /\ \/ /\ key \notin DOMAIN docs
          /\ resp' = ErrorResp("delete", KeyReq(key), 404, "Product not found")
          /\ UNCHANGED <<alive, inflight>>
       \/ /\ key \in DOMAIN docs
          /\ inflight' = [inflight EXCEPT ![s] = [Idle EXCEPT !.pc = "delete", !.key = key]]
          /\ resp' = InitResp
          /\ UNCHANGED alive
       \/ UnhandledRejection(s, "delete", KeyReq(key))
    /\ UNCHANGED <<variant, docs, products, created>>
    /\ countBefore' = Len(AllProducts)

\* ... and from there: the delete and the response.
DeleteCommit(s) ==
    /\ alive /\ inflight[s].pc = "delete"
    /\ \/ /\ docs' = DocsDelete(docs, {inflight[s].key})
          /\ resp' = MessageResp("delete", KeyReq(inflight[s].key), 200, "Product deleted")
          /\ inflight' = [inflight EXCEPT ![s] = Idle]
          /\ UNCHANGED alive
       \/ /\ UnhandledRejection(s, "delete", KeyReq(inflight[s].key))
          /\ UNCHANGED docs
    /\ UNCHANGED <<variant, products, created>>
    /\ countBefore' = Len(AllProducts)

\* DELETE /products up to its first await: the snapshot of the collection.
DeleteAllRead(s) ==
    /\ DbReady(s)
    /\ \/ /\ inflight' = [inflight EXCEPT
                            ![s] = [Idle EXCEPT !.pc = "deleteAll", !.keys = DOMAIN docs]]
          /\ resp' = InitResp
          /\ UNCHANGED alive
       \/ UnhandledRejection(s, "deleteAll", NoReq)
    /\ UNCHANGED <<variant, docs, products, created>>
    /\ countBefore' = Len(AllProducts)

\* ... and from there: batch.commit(), which Firestore applies atomically.
DeleteAllCommit(s) ==
    /\ alive /\ inflight[s].pc = "deleteAll"
    /\ \/ /\ docs' = DocsDelete(docs, inflight[s].keys)
          /\ resp' = MessageResp("deleteAll", NoReq, 200, "All products deleted")
          /\ inflight' = [inflight EXCEPT ![s] = Idle]
          /\ UNCHANGED alive
       \/ /\ UnhandledRejection(s, "deleteAll", NoReq)
          /\ UNCHANGED docs
    /\ UNCHANGED <<variant, products, created>>
    /\ countBefore' = Len(AllProducts)

\* GET /products of part_000 up to its first await: the query parameters and
\* the count of the whole collection.
ListCount(s, q) ==
    /\ DbReady(s) /\ variant = "part_000"
    /\ \/ /\ inflight' = [inflight EXCEPT ![s] =
                [pc |-> "list", key |-> 0, q |-> q,
                 pageIndex |-> ParseIntOr(q.pageIndex, DefaultPageIndex),
                 pageSize |-> ParseIntOr(q.pageSize, DefaultPageSize),
                 sortField |-> IF q.sortField = "price" THEN "price" ELSE "name",
                 sort |-> IF q.sort = "desc" THEN "desc" ELSE "asc",
                 totalCount |-> Len(GetAll(docs)), keys |-> {}, seen |-> docs]]
          /\ resp' = InitResp
       \/ /\ resp' = ErrorResp("list", QueryReq(q), 500,                \* catch (error)
                               "No products found")
          /\ UNCHANGED inflight
    /\ UNCHANGED <<variant, alive, docs, products, created>>
    /\ countBefore' = Len(AllProducts)

\* ... and from there: the page and the response.  Firestore takes any
\* integer as offset and limit and refuses the query when one is negative:
\* the await then throws.
ListPage(s) ==
    /\ alive /\ inflight[s].pc = "list"
    /\ \/ LET f == inflight[s]
              offset == (f.pageIndex - 1) * f.pageSize
              page == Page(OrderBy(docs, f.sortField, f.sort), offset, f.pageSize)
          IN  /\ offset >= 0 /\ f.pageSize >= 0
              /\ resp' = [Resp("list", QueryReq(inflight[s].q), 200, "list", page,
                               f.totalCount, "")
                            EXCEPT !.pageIndex = f.pageIndex, !.pageSize = f.pageSize,
                                   !.offset = offset, !.limit = f.pageSize]
       \/ resp' = ErrorResp("list", QueryReq(inflight[s].q), 500,       \* catch (error)
                            "No products found")
    /\ inflight' = [inflight EXCEPT ![s] = Idle]
    /\ UNCHANGED <<variant, alive, docs, products, created>>
    /\ countBefore' = Len(AllProducts)

\* GET /products of server.js: every product, query parameters ignored.
ListAll(s, q) ==
    /\ DbReady(s) /\ variant = "server"
    /\ \/ /\ resp' = Resp("list", QueryReq(q), 200, "all", GetAll(docs), 0, "")
          /\ UNCHANGED <<alive, inflight>>
       \/ UnhandledRejection(s, "list", QueryReq(q))
    /\ UNCHANGED <<variant, docs, products, created>>
    /\ countBefore' = Len(AllProducts)

----------------------------------------------------------------------------
\* node:http + the array `products` (part_001).  Every handler runs to its end
\* in one turn of the event loop.

MemReady(s) == alive /\ variant = "part_001" /\ inflight[s].pc = "idle"

\* An exception thrown in the request listener or in the "end" callback is
\* caught by nobody: the process dies.
UncaughtException(s, op, req) ==
    /\ alive' = FALSE
    /\ inflight' = [t \in Slots |-> Idle]
    /\ resp' = NoResponse(op, req)

\* products.find / products.findIndex with (p) => p.id === id; 0 when none.
FindIndex(seq, id) ==
    IF \E i \in 1..Len(seq) : seq[i].id = id
    THEN CHOOSE i \in 1..Len(seq) :
             /\ seq[i].id = id
             /\ \A j \in 1..(i - 1) : seq[j].id # id
    ELSE 0

\* products.splice(index, 1)
Splice(seq, index) == SubSeq(seq, 1, index - 1) \o SubSeq(seq, index + 1, Len(seq))

getProductsHandler(s) ==
    /\ MemReady(s)
    /\ resp' = Resp("list", NoReq, 200, "all", products, 0, "")
    /\ UNCHANGED <<variant, alive, docs, products, created, inflight>>
    /\ countBefore' = Len(AllProducts)

getProductByIdHandler(s, key) ==
    /\ MemReady(s)
    /\ LET index == FindIndex(products, ParseInt(key))
       IN  resp' = IF index # 0
                   THEN ProductResp("get", KeyReq(key), 200, products[index])
                   ELSE MessageResp("get", KeyReq(key), 404, "Product not found")
    /\ UNCHANGED <<variant, alive, docs, products, created, inflight>>
    /\ countBefore' = Len(AllProducts)

\* products.reduce((best, p) => better(p, best) ? p : best) without an initial
\* value, over a non-empty array.
RECURSIVE ReduceFrom(_, _, _, _)
ReduceFrom(seq, i, best, wantMax) ==
    IF i > Len(seq) THEN best
    ELSE ReduceFrom(seq, i + 1,
                    IF wantMax
                    THEN (IF seq[i].price > best.price THEN seq[i] ELSE best)
                    ELSE (IF seq[i].price < best.price THEN seq[i] ELSE best),
                    wantMax)

getExpensivestProduct(s) ==
    /\ MemReady(s)
    /\ IF products = <<>>
       THEN UncaughtException(s, "expensivest", NoReq)    \* reduce of empty array
       ELSE /\ resp' = ProductResp("expensivest", NoReq, 200,
                                   ReduceFrom(products, 2, products[1], TRUE))
            /\ UNCHANGED <<alive, inflight>>
    /\ UNCHANGED <<variant, docs, products, created>>
    /\ countBefore' = Len(AllProducts)

getCheapestProduct(s) ==
    /\ MemReady(s)
    /\ IF products = <<>>
       THEN UncaughtException(s, "cheapest", NoReq)       \* reduce of empty array
       ELSE /\ resp' = ProductResp("cheapest", NoReq, 200,
                                   ReduceFrom(products, 2, products[1], FALSE))
            /\ UNCHANGED <<alive, inflight>>
    /\ UNCHANGED <<variant, docs, products, created>>
    /\ countBefore' = Len(AllProducts)

\* (a, b) => a["id"] - b["id"] > 0: a numeric string counts as its number, and
\* with an absent id the difference is NaN, which is not > 0.
IdAfter(a, b) == a.id.t # "undef" /\ b.id.t # "undef" /\ a.id.v > b.id.v

\* [...products].sort(comparator): a stable insertion sort.
RECURSIVE InsertById(_, _)
InsertById(sorted, p) ==
    IF sorted # <<>> /\ IdAfter(sorted[Len(sorted)], p)
    THEN InsertById(SubSeq(sorted, 1, Len(sorted) - 1), p) \o <<sorted[Len(sorted)]>>
    ELSE sorted \o <<p>>

RECURSIVE SortById(_)
SortById(seq) ==
    IF seq = <<>> THEN <<>>
    ELSE InsertById(SortById(SubSeq(seq, 1, Len(seq) - 1)), seq[Len(seq)])

getMedianProduct(s) ==
    /\ MemReady(s)
    /\ resp' = IF Len(products) = 0
               THEN NoResponse("median", NoReq)        \* return null: no res.end()
               ELSE LET sorted == SortById(products)
                        mid == Len(sorted) \div 2
                    IN  IF Len(sorted) % 2 # 0
                        THEN ProductResp("median", NoReq, 200, sorted[mid + 1])
                        ELSE Resp("median", NoReq, 200, "pair",
                                  <<sorted[mid], sorted[mid + 1]>>, 0, "")
    /\ UNCHANGED <<variant, alive, docs, products, created, inflight>>
    /\ countBefore' = Len(AllProducts)

deleteProductByIdHandler(s, key) ==
    /\ MemReady(s)
    /\ LET index == FindIndex(products, ParseInt(key))
       IN  IF index = 0
           THEN /\ resp' = ErrorResp("delete", KeyReq(key), 404, "Product not found")
                /\ UNCHANGED products
           ELSE /\ products' = Splice(products, index)
                /\ resp' = MessageResp("delete", KeyReq(key), 200,
                                       "Product with id: '<id>' deleted")
    /\ UNCHANGED <<variant, alive, docs, created, inflight>>
    /\ countBefore' = Len(AllProducts)

createProductHandler(s, body) ==
    /\ MemReady(s)
    /\ IF body.name.t = "undef"
       THEN /\ UncaughtException(s, "post", BodyReq(body))  \* undefined.trim()
            /\ UNCHANGED <<products, created>>
       ELSE IF Trim(body.name.v) = <<>>
       THEN /\ resp' = MessageResp("post", BodyReq(body), 400, "Name is required")
            /\ UNCHANGED <<alive, inflight, products, created>>
       ELSE /\ created < MaxCreated
            /\ products' = Append(products, body)
            /\ created' = created + 1
            /\ resp' = ProductResp("post", BodyReq(body), 201, body)
            /\ UNCHANGED <<alive, inflight>>
    /\ UNCHANGED <<variant, docs>>
    /\ countBefore' = Len(AllProducts)

\* GET /products/count, answered in the dispatcher
countRoute(s) ==
    /\ MemReady(s)
    /\ resp' = Resp("count", NoReq, 200, "count", <<>>, Len(products), "")
    /\ UNCHANGED <<variant, alive, docs, products, created, inflight>>
    /\ countBefore' = Len(AllProducts)

\* DELETE /products, answered in the dispatcher
deleteAllRoute(s) ==
    /\ MemReady(s)
    /\ products' = <<>>
    /\ resp' = MessageResp("deleteAll", NoReq, 200, "All products deleted")
    /\ UNCHANGED <<variant, alive, docs, created, inflight>>
    /\ countBefore' = Len(AllProducts)

----------------------------------------------------------------------------

\* One step of a request in slot s (one of S), with its query from Q or its
\* body from B.
Step(S, Q, B) ==
    \E s \in S :
        \/ \E q \in Q : ListCount(s, q)
        \/ ListPage(s)
        \/ \E q \in Q : ListAll(s, q)
        \/ Expensivest(s)
        \/ Cheapest(s)
        \/ Median(s)
        \/ Count(s)
        \/ \E body \in B : Post(s, body)
        \/ \E key \in Keys : GetById(s, key)
        \/ \E key \in Keys : DeleteCheck(s, key)
        \/ DeleteCommit(s)
        \/ DeleteAllRead(s)
        \/ DeleteAllCommit(s)
        \/ getProductsHandler(s)
        \/ \E key \in Keys : getProductByIdHandler(s, key)
        \/ getExpensivestProduct(s)
        \/ getCheapestProduct(s)
        \/ getMedianProduct(s)
        \/ \E key \in Keys : deleteProductByIdHandler(s, key)
        \/ \E body \in B : createProductHandler(s, body)
        \/ countRoute(s)
        \/ deleteAllRoute(s)

\* Requests interleave at their awaits.
Init == InitWith(ConcBodies)
Next == Step(Slots, ConcQueries, ConcBodies)
Spec == Init /\ [][Next]_vars

\* One request at a time, over all the inputs.
InitSeq == InitWith(Bodies)
NextSeq == Step({1}, Queries, Bodies)
SpecSeq == InitSeq /\ [][NextSeq]_vars

\* One request at a time, over the wider range of page arguments.
InitPage == InitWith(ConcBodies)
NextPage == Step({1}, WideQueries, ConcBodies)
SpecPage == InitPage /\ [][NextPage]_vars

----------------------------------------------------------------------------
\* Vocabulary of the properties

\* The response reports a failed store call (only the Firestore variants call a
\* store): nothing was sent, or a 500.
StoreFailed(r) == variant \in DbVariants /\ r.op # "none" /\ r.status \in {0, 500}

\* The step wrote the response of a request `op`.
Answers(op) == resp'.op = op

\* The products whose id reads as the path segment `key`.
WithId(seq, key) ==
    {i \in 1..Len(seq) : seq[i].id.t # "undef" /\ IdToString(seq[i].id) = key}

Held(seq, key) == WithId(seq, key) # {}

Elements(seq) == {seq[i] : i \in 1..Len(seq)}

\* The prices of the products, ascending.
RECURSIVE PricesOf(_)
PricesOf(seq) == IF seq = <<>> THEN <<>> ELSE <<Head(seq).price>> \o PricesOf(Tail(seq))

RECURSIVE InsertPrice(_, _)
InsertPrice(sorted, x) ==
    IF sorted = <<>> THEN <<x>>
    ELSE IF x <= Head(sorted) THEN <<x>> \o sorted
    ELSE <<Head(sorted)>> \o InsertPrice(Tail(sorted), x)

RECURSIVE SortPrices(_)
SortPrices(ps) ==
    IF ps = <<>> THEN <<>> ELSE InsertPrice(SortPrices(Tail(ps)), Head(ps))

PricesAscending == SortPrices(PricesOf(AllProducts))

----------------------------------------------------------------------------
\* C1.  GET /products/median over a non-empty collection of n products taken
\* in ascending price order answers 200 with the product at index floor(n/2)
\* when n is odd, and with the pair of products at indices n/2-1 and n/2 when
\* n is even.  (The response is compared by price, so that equal prices do not
\* matter.)
C1_MedianLaw ==
    (resp.op = "median" /\ Len(AllProducts) > 0 /\ ~StoreFailed(resp)) =>
        LET n == Len(AllProducts)
            mid == n \div 2
        IN  /\ resp.status = 200
            /\ \A i \in 1..Len(resp.items) : resp.items[i] \in Elements(AllProducts)
            /\ IF n % 2 = 1
               THEN /\ resp.kind = "product"
                    /\ resp.items[1].price = PricesAscending[mid + 1]
               ELSE /\ resp.kind = "pair"
                    /\ Len(resp.items) = 2
                    /\ resp.items[1].price = PricesAscending[mid]
                    /\ resp.items[2].price = PricesAscending[mid + 1]

\* What C2 asks of one step.
C2_UpsertStep ==
       (/\ Answers("post") /\ resp'.status = 201
        /\ resp'.req.body.id.t # "undef"
        /\ \E i \in WithId(AllProducts, IdToString(resp'.req.body.id)) :
               AllProducts[i].price # resp'.req.body.price)
       => LET key == IdToString(resp'.req.body.id)
          IN  /\ Cardinality(WithId(AllProducts', key)) = 1
              /\ \A i \in WithId(AllProducts', key) :
                     AllProducts'[i].price = resp'.req.body.price
              /\ Len(AllProducts') = Len(AllProducts)

\* C2.  POST /products is an upsert: a successful POST of an id that the
\* collection already holds with another price leaves exactly one product
\* with that id, carrying the new price, and leaves the count as it was.
C2_Upsert == [][C2_UpsertStep]_vars

\* C3, as claimed.  Once DELETE /products has answered 200 the collection is
\* empty (a GET /products/count that follows reports 0), whatever it held.
C3_DeleteAllTotal ==
    (resp.op = "deleteAll" /\ resp.status = 200) => Len(AllProducts) = 0

\* The step in which the DELETE /products of slot s answers 200.
DeleteAllAnswers(s) ==
    /\ Answers("deleteAll") /\ resp'.status = 200
    /\ variant \in DbVariants => inflight[s].pc = "deleteAll" /\ inflight'[s].pc = "idle"

\* C3, amended.  The step in which DELETE /products answers 200 removes, all
\* at once, every product the delete read from the collection and nothing
\* else; the collection is empty after it provided no product was added
\* between the delete's read and that step.
C3_DeleteAllOfSnapshot ==
    [][\A s \in Slots : DeleteAllAnswers(s) =>
          IF variant \in DbVariants
          THEN /\ DOMAIN docs' = DOMAIN docs \ inflight[s].keys
               /\ \A k \in DOMAIN docs' : docs'[k] = docs[k]
               /\ (DOMAIN docs \subseteq inflight[s].keys) => Len(AllProducts') = 0
          ELSE Len(AllProducts') = 0]_vars

\* C3's case: a delete-all has answered 200 and emptied a collection that held
\* products.
C3_Witness ==
    resp.op = "deleteAll" /\ resp.status = 200 /\ countBefore > 1
    /\ Len(AllProducts) = 0

\* What C4 asks of one step.
C4_RoundTripStep ==
    /\ (/\ resp.op = "post" /\ resp.status = 201 /\ resp.req.body.id.t # "undef"
        /\ Answers("get") /\ ~StoreFailed(resp')
        /\ resp'.req.key = IdToString(resp.req.body.id))
       => /\ resp'.status = 200 /\ resp'.kind = "product"
          /\ resp'.items = <<resp.req.body>>
    /\ (/\ Answers("delete") /\ ~StoreFailed(resp')
        /\ Held(AllProducts, resp'.req.key))
       => /\ resp'.status = 200 /\ resp'.kind = "message"
          /\ resp'.text = "Product deleted"
          /\ ~Held(AllProducts', resp'.req.key)
    /\ (/\ resp.op = "delete" /\ resp.status = 200
        /\ Answers("get") /\ ~StoreFailed(resp')
        /\ resp'.req.key = resp.req.key)
       => resp'.status = 404

\* C4.  Round trip: after a POST answered 201 with its body, a GET of that id
\* that follows answers 200 with the same body; a DELETE of an id the
\* collection holds answers 200 {message: "Product deleted"} and the id is
\* gone; a GET of that id that follows the DELETE answers 404.
C4_RoundTrip == [][C4_RoundTripStep]_vars

\* What C5 asks of one step.
C5_MissingFieldStep ==
    (/\ Answers("post")
     /\ resp'.req.body.id.t = "undef" \/ resp'.req.body.name.t = "undef")
    => /\ resp'.status = 400 /\ resp'.kind = "error"
       /\ AllProducts' = AllProducts

\* C5.  A POST /products whose body lacks id or lacks name is answered 400
\* with an {error: ...} payload and leaves the collection as it was.
C5_MissingField == [][C5_MissingFieldStep]_vars

\* C6.  GET /products with pageIndex >= 1 and pageSize >= 1 and no concurrent
\* write returns min(pageSize, totalCount - offset) products when
\* offset = (pageIndex-1)*pageSize is below the number of products held, and
\* none otherwise.
C6_PageLength ==
    (/\ resp.op = "list" /\ resp.status = 200
     /\ resp.req.q.pageIndex.t = "num" /\ resp.req.q.pageIndex.v >= 1
     /\ resp.req.q.pageSize.t = "num" /\ resp.req.q.pageSize.v >= 1)
    => LET totalCount == Len(AllProducts)
           pageSize == resp.req.q.pageSize.v
           offset == (resp.req.q.pageIndex.v - 1) * pageSize
       IN  Len(resp.items) =
               IF offset < totalCount THEN Min(pageSize, totalCount - offset) ELSE 0

\* C7.  GET /products/expensivest (cheapest) answers 200 with one product of
\* the collection whose price is >= (<=) every price in it, and 404
\* {error: "No products found"} when the collection is empty.
C7_Extremes ==
    (resp.op \in {"expensivest", "cheapest"} /\ ~StoreFailed(resp)) =>
        IF Len(AllProducts) > 0
        THEN /\ resp.status = 200 /\ resp.kind = "product"
             /\ resp.items[1] \in Elements(AllProducts)
             /\ \A p \in Elements(AllProducts) :
                    IF resp.op = "expensivest"
                    THEN resp.items[1].price >= p.price
                    ELSE resp.items[1].price <= p.price
        ELSE /\ resp.status = 404 /\ resp.kind = "error"
             /\ resp.text = "No products found"

\* C8.  A request whose store call throws is answered 500 with a JSON
\* {error: ...} body, and the process goes on serving requests.
C8_StoreFailure ==
    StoreFailed(resp) => resp.status = 500 /\ resp.kind = "error" /\ alive

\* What C9 asks of one step.
C9_BlankNameStep ==
    (/\ Answers("post") /\ ~StoreFailed(resp')
     /\ resp'.req.body.name.t = "str" /\ Trim(resp'.req.body.name.v) = <<>>)
    => /\ resp'.status = 400
       /\ AllProducts' = AllProducts

\* C9.  A POST /products whose name is empty or only blanks is answered 400
\* and writes nothing (so that no product with such a name is ever held).
C9_BlankName == [][C9_BlankNameStep]_vars

\* What C10 asks of one step.
C10_DeleteOneStep ==
    (Answers("delete") /\ ~StoreFailed(resp')) =>
        IF Held(AllProducts, resp'.req.key)
        THEN /\ resp'.status = 200
             /\ \E i \in WithId(AllProducts, resp'.req.key) :
                    AllProducts' = Splice(AllProducts, i)
        ELSE /\ resp'.status = 404
             /\ AllProducts' = AllProducts

\* C10.  DELETE /products/<id> answers 404 and changes nothing when the
\* collection holds no product with that id; it answers 200 and removes one
\* product with that id, leaving every other product as it was, when it does.
C10_DeleteOne == [][C10_DeleteOneStep]_vars

\* The step in which the GET /products of slot s, having counted the
\* collection, reads its page and answers 200.
ListAnswers(s) ==
    /\ inflight[s].pc = "list" /\ inflight'[s].pc = "idle"
    /\ Answers("list") /\ resp'.status = 200 /\ resp'.kind = "list"

Max0(a) == IF a < 0 THEN 0 ELSE a

\* totalCount and the page of a list response agree: the page is as long as
\* min(pageSize, max(0, totalCount - offset)).
CountAndPageAgree(r) ==
    LET offset == (r.pageIndex - 1) * r.pageSize
    IN  Len(r.items) = Min(r.pageSize, Max0(r.n - offset))

\* C11.  GET /products reads the count and the page in two store reads.  When
\* the collection the page is read from is the one that was counted (no POST
\* or DELETE has changed it in between), the response's totalCount and its
\* page agree: products has min(pageSize, max(0, totalCount - offset))
\* elements.  (C11_Witness is the other half: with a write between the two
\* reads they can disagree.)
C11_ListReadsAgree ==
    [][\A s \in Slots :
          (ListAnswers(s) /\ inflight[s].seen = docs) => CountAndPageAgree(resp')]_vars

\* C11's case: a POST or DELETE has committed between the two reads of one
\* GET /products, and the 200 response carries a totalCount that disagrees
\* with its page.
C11_Witness ==
    /\ resp.op = "list" /\ resp.status = 200 /\ resp.kind = "list"
    /\ ~CountAndPageAgree(resp)

\* The integer a query parameter supplies, or the default when it is absent.
Supplied(arg, dflt) == IF arg.t = "undef" THEN dflt ELSE arg.v

\* C12.  A GET /products that answers 200 with a page has used the supplied pageIndex and
\* pageSize as given, zero and negative values included, and the defaults 1
\* and 10 only for an absent parameter: the store was asked for offset
\* (pageIndex-1)*pageSize and limit pageSize, and the response echoes
\* pageIndex and pageSize.
C12_PassThrough ==
    (resp.op = "list" /\ resp.status = 200 /\ resp.kind = "list")
    => LET pageIndex == Supplied(resp.req.q.pageIndex, DefaultPageIndex)
           pageSize == Supplied(resp.req.q.pageSize, DefaultPageSize)
       IN  /\ resp.offset = (pageIndex - 1) * pageSize
           /\ resp.limit = pageSize
           /\ resp.pageIndex = pageIndex /\ resp.pageSize = pageSize

====
